---- MODULE Spec2Model ----
(***************************************************************************)
(* Compliance & Notification Engine of the course-management platform.     *)
(*                                                                         *)
(* The source holds two worker designs.  server.js starts exactly one of   *)
(* them (startNotificationWorker):                                         *)
(*   - the database worker, class NotificationWorker, which writes         *)
(*     Notification rows through NotificationService       (Spec);         *)
(*   - the Redis worker, checkOverdueLogs + the rpop loop, which pushes    *)
(*     dispatch intents on the list 'notifications'        (QueueSpec).    *)
(* Both run next to the HTTP handlers of routes/notifications.js and       *)
(* routes/activityTracker.js, which are part of either specification.      *)
(* WorkerSpec follows the timers and the runs in flight of either design.  *)
(* LossSpec lets the process end between rpop and dispatch, YearSpec runs  *)
(* the Redis sweep on any day of the year, LateSpec starts the database    *)
(* worker past the grace threshold, ListSpec splits GET /notifications at  *)
(* its second query, CreateSpec calls createNotification with any spec,    *)
(* CrudSpec adds PUT /activity-tracker/:id, RaceSpec a create whose check  *)
(* ran before a concurrent create, ModuleSpec holds the module routes,     *)
(* DispatchSpec lets rows disappear under queued intents, QueueLiveSpec    *)
(* adds the fairness of the drain timer.                                   *)
(***************************************************************************)
EXTENDS Integers, Sequences, FiniteSets, TLC

VARIABLES
    now,            \* wall clock: seconds since 1 January 00:00 of the year,
                    \* the resolution of the DATETIME columns
    ticks,          \* how often the modelled clock has advanced
    managerOf,      \* Facilitator.managerId (belongsTo Manager, nullable)
    allocations,    \* course_allocations rows, by id
    logs,           \* activity_trackers rows
    notifications,  \* notifications rows, in creation order
    queue,          \* the Redis list 'notifications', head first
    lastOp,         \* the last handler that ran and what it answered
    design,         \* which workers/notificationWorker the process loaded
    isRunning,      \* NotificationWorker.isRunning
    interval,       \* NotificationWorker.interval, the handle setInterval returned
    timers,         \* the interval timers of the process that are armed
    runs,           \* the runs in flight, counted by what started them
    listCall,       \* the GET /notifications request in flight or last answered
    modules,        \* modules rows, in creation order
    removed         \* ids of facilitator and allocation rows that are gone

workerVars == <<design, isRunning, interval, timers, runs>>

vars == <<now, ticks, managerOf, allocations, logs, notifications, queue, lastOp,
          design, isRunning, interval, timers, runs, listCall, modules, removed>>

----------------------------------------------------------------------------
(* Bounds of the model *)

MaxNotifs == 2      \* rows the notifications table holds at most
MaxTicks == 1       \* weeks the clock advances at most
MaxQueue == 3       \* entries the Redis list holds at most
MaxTimers == 4      \* interval timers the process creates at most
MaxRuns == 2        \* runs in flight at most

\* rows the table holds at most where one allocation is followed further
MaxModules == 3     \* rows the modules table holds at most
SingleNotifs == MaxNotifs + 2

Facilitators == {"f1", "f2"}
Managers == {"m1"}
AllocationIds == {"a1", "a2"}
Users == Facilitators \cup Managers
Callers == {"f1", "m1"}     \* the users who send notification requests

\* what lastOp holds: the handler, its arguments where a claim reads them, and
\* the count or status it answered with
Op(o, args, r) == [op |-> o, args |-> args, result |-> r]

None == << >>
Some(x) == <<x>>

\* listCall before any GET /notifications was sent
NoCall ==
    [phase |-> "idle", userId |-> "", limit |-> 0, offset |-> 0,
     unreadOnly |-> "absent", rows |-> << >>, unreadCount |-> 0]

Designs == {"db", "redis"}

TimerIds == 1..MaxTimers

\* what can start a run: start()'s own first sweep, triggerNotificationCheck(),
\* or the callback of an interval timer
StartRun == <<"start", 0>>
ManualRun == <<"manual", 0>>
TimerRun(t) == <<"timer", t>>
RunSources == {StartRun, ManualRun} \cup {TimerRun(t) : t \in TimerIds}

RoleOf(u) == IF u \in Managers THEN "manager" ELSE "facilitator"

----------------------------------------------------------------------------
(* Time *)

\* 7 * 24 * 60 * 60 * 1000 ms, in the model's unit of one second
WeekMs == 7 * 24 * 60 * 60

\* Math.ceil(x / y) for x >= 0, y > 0
Ceil(x, y) == IF x % y = 0 THEN x \div y ELSE (x \div y) + 1

currentWeek(t) == Ceil(t, WeekMs)

oneWeekAgo(t) == t - WeekMs

\* body('weekNumber').isInt({ min: 1, max: 52 })
MinWeekNumber == 1
MaxWeekNumber == 52

\* The weeks a request files or deletes a log for: the current and the previous one
LogWeeks(t) ==
    {w \in {currentWeek(t) - 1, currentWeek(t)} : MinWeekNumber <= w /\ w <= MaxWeekNumber}

----------------------------------------------------------------------------
(* Sequence helpers *)

SeqsOfSet(S) ==
    LET n == Cardinality(S)
    IN  {s \in [1..n -> S] : \A i, j \in 1..n : i # j => s[i] # s[j]}

----------------------------------------------------------------------------
(* Collaborators: allocations and activity logs *)

\* CourseAllocation.findAll({ where: { isActive: true } }): no ORDER BY, so
\* the rows come in an order the database chooses.
ActiveAllocations == {a \in AllocationIds : allocations[a].isActive /\ a \notin removed}

\* ActivityTracker.findAll({ where: { allocationId, isActive: true } })
activityLogsActive(a) == {l \in logs : l.allocationId = a /\ l.isActive}

\* allocation.getActivityLogs(): the hasMany getter, every row of the allocation
getActivityLogs(a) == {l \in logs : l.allocationId = a}

\* ActivityTracker.findOne({ where: { allocationId, weekNumber, isActive: true } })
findActiveLog(a, w) ==
    {l \in logs : l.allocationId = a /\ l.weekNumber = w /\ l.isActive}

\* allocation.getFacilitator().then(f => f.getManager())
getManager(a) == managerOf[allocations[a].facilitatorId]

----------------------------------------------------------------------------
(* Notification Ledger: models/Notification + services/notificationService *)

\* Notification.create: a row with its defaults.  The rows are kept in creation
\* order, which stands for the createdAt column.
NewNotification(ns, spec) ==
    [ id                |-> Len(ns) + 1,
      recipientId       |-> spec.recipientId,
      recipientType     |-> spec.recipientType,
      type              |-> spec.type,
      title             |-> spec.title,
      message           |-> spec.message,
      relatedEntityId   |-> spec.relatedEntityId,
      relatedEntityType |-> spec.relatedEntityType,
      scheduledFor      |-> None,
      metadata          |-> spec.metadata,
      isRead            |-> FALSE,
      readAt            |-> None,
      isDelivered       |-> FALSE,
      deliveredAt       |-> None ]

\* a create that replaces the row already held for the same recipient, type and
\* entity by a fresh unread one instead of adding a row
createNotificationReplacing(ns, spec) ==
    LET same(n) == /\ n.recipientId = spec.recipientId
                   /\ n.type = spec.type
                   /\ n.relatedEntityId = spec.relatedEntityId
    IN  IF \E i \in 1..Len(ns) : same(ns[i])
        THEN [i \in 1..Len(ns) |->
                 IF same(ns[i])
                 THEN [NewNotification(ns, spec) EXCEPT !.id = i]
                 ELSE ns[i]]
        ELSE Append(ns, NewNotification(ns, spec))

createNotification(ns, spec) == Append(ns, NewNotification(ns, spec))

\* What Notification.create answers.  Sequelize checks allowNull: false itself
\* and rejects with a validation error before any statement is sent; a value
\* outside an ENUM column is sent and the INSERT is rejected by the database.
CreateOk == 0
NotNullViolation == 1
EnumRejected == 2

Undefined == "undefined"

RecipientTypes == {"manager", "facilitator"}
NotificationTypes == {"reminder", "alert", "submission", "deadline"}

\* a model that checks allowNull and nothing else
createOutcomeNotNullOnly(spec) ==
    IF \/ spec.recipientId = Undefined
       \/ spec.recipientType = Undefined
       \/ spec.type = Undefined
       \/ spec.title = Undefined
    THEN NotNullViolation
    ELSE CreateOk

createOutcome(spec) ==
    IF \/ spec.recipientId = Undefined
       \/ spec.recipientType = Undefined
       \/ spec.type = Undefined
       \/ spec.title = Undefined
    THEN NotNullViolation
    ELSE IF spec.recipientType \notin RecipientTypes \/ spec.type \notin NotificationTypes
         THEN EnumRejected
         ELSE CreateOk

\* createNotification called with a spec of the caller's own making: the error
\* of Notification.create is logged and thrown on, the table is as it was
createNotificationChecked(ns, spec) ==
    IF createOutcome(spec) = CreateOk THEN createNotification(ns, spec) ELSE ns

ReminderSpec(a) ==
    [ recipientId       |-> allocations[a].facilitatorId,
      recipientType     |-> "facilitator",
      type              |-> "reminder",
      title             |-> "Activity Log Reminder",
      message           |-> <<"Please submit your activity log for allocation", a>>,
      relatedEntityId   |-> <<a>>,
      relatedEntityType |-> "allocation",
      metadata          |-> [allocationId |-> a] ]

DeadlineSpec(a, m) ==
    [ recipientId       |-> m,
      recipientType     |-> "manager",
      type              |-> "deadline",
      title             |-> "Deadline Alert",
      message           |-> <<"has not submitted activity log. Deadline passed.", a>>,
      relatedEntityId   |-> <<a>>,
      relatedEntityType |-> "allocation",
      metadata          |-> [allocationId |-> a] ]

SubmissionSpec(l, m) ==
    [ recipientId       |-> m,
      recipientType     |-> "manager",
      type              |-> "submission",
      title             |-> "Activity Log Submitted",
      message           |-> <<"has submitted activity log for", l.allocationId>>,
      relatedEntityId   |-> <<l.allocationId, l.weekNumber>>,
      relatedEntityType |-> "activity_tracker",
      metadata          |-> [allocationId |-> l.allocationId] ]

\* for (const allocation of allocations) { if no logs: createNotification(reminder) }
RECURSIVE sendReminderToFacilitators(_, _)
sendReminderToFacilitators(ns, list) ==
    IF list = << >> THEN ns
    ELSE LET a == Head(list)
             ns1 == IF getActivityLogs(a) = {}
                    THEN createNotification(ns, ReminderSpec(a))
                    ELSE ns
         IN  sendReminderToFacilitators(ns1, Tail(list))

\* for (const allocation of allocations) { manager = ...; createNotification(deadline) }
\* manager.id throws a TypeError when the facilitator has no manager; the rows
\* created before it stay (there is no transaction).
RECURSIVE sendDeadlineAlertToManagers(_, _)
sendDeadlineAlertToManagers(ns, list) ==
    IF list = << >> THEN [ns |-> ns, threw |-> FALSE]
    ELSE LET a == Head(list)
             manager == getManager(a)
         IN  IF manager = None
             THEN [ns |-> ns, threw |-> TRUE]
             ELSE sendDeadlineAlertToManagers(
                      createNotification(ns, DeadlineSpec(a, manager[1])),
                      Tail(list))

\* a where clause that names the id only
markAsReadMatchesAnyRecipient(n, notificationId, userId) == n.id = notificationId

\* Notification.update({isRead: true, readAt: new Date()}, {where: {id, recipientId}})
markAsReadMatches(n, notificationId, userId) ==
    n.id = notificationId /\ n.recipientId = userId

markAsRead(ns, notificationId, userId, t) ==
    [i \in 1..Len(ns) |->
        IF markAsReadMatches(ns[i], notificationId, userId)
        THEN [ns[i] EXCEPT !.isRead = TRUE, !.readAt = Some(t)]
        ELSE ns[i]]

\* result[0] of Notification.update: MySQL's affectedRows, the matched rows the
\* update changed (a row already read in the same second keeps its values)
markAsReadCount(ns, notificationId, userId, t) ==
    Cardinality({i \in 1..Len(ns) :
        /\ markAsReadMatches(ns[i], notificationId, userId)
        /\ (~ns[i].isRead \/ ns[i].readAt # Some(t))})

\* Notification.update({isDelivered: true, deliveredAt: new Date()}, {where: {id}})
markAsDelivered(ns, notificationId, t) ==
    [i \in 1..Len(ns) |->
        IF ns[i].id = notificationId
        THEN [ns[i] EXCEPT !.isDelivered = TRUE, !.deliveredAt = Some(t)]
        ELSE ns[i]]

\* PUT /read-all: update where {recipientId, recipientType, isRead: false}
readAllMatches(n, userId, userType) ==
    n.recipientId = userId /\ n.recipientType = userType /\ n.isRead = FALSE

\* a where clause that leaves the recipient out
readAllMatchesAnyRecipient(n, userId, userType) ==
    n.recipientType = userType /\ n.isRead = FALSE

\* where: {recipientId, recipientType, isRead: false}
readAllWhere(n, userId, userType) == readAllMatches(n, userId, userType)

markAllRead(ns, userId, userType, t) ==
    [i \in 1..Len(ns) |->
        IF readAllWhere(ns[i], userId, userType)
        THEN [ns[i] EXCEPT !.isRead = TRUE, !.readAt = Some(t)]
        ELSE ns[i]]

markAllReadCount(ns, userId, userType) ==
    Cardinality({i \in 1..Len(ns) : readAllWhere(ns[i], userId, userType)})

\* a count whose where clause leaves isRead out
getUnreadCountOfAll(ns, userId, userType) ==
    Cardinality({i \in 1..Len(ns) :
        /\ ns[i].recipientId = userId
        /\ ns[i].recipientType = userType})

\* Notification.count({where: {recipientId, recipientType, isRead: false}})
getUnreadCount(ns, userId, userType) ==
    Cardinality({i \in 1..Len(ns) :
        /\ ns[i].recipientId = userId
        /\ ns[i].recipientType = userType
        /\ ns[i].isRead = FALSE})

----------------------------------------------------------------------------
(* Initial state *)

\* if (currentWeek > 2)
GraceWeeks == 2

OldCreatedAt == 0 - 2 * WeekMs

\* The state after construction, the process starting in one of the weeks
\* 1 + k, k in startWeeks: nothing filed, nothing notified, nothing queued.
InitAt(designs, instants, secondAllocation) ==
    /\ design \in designs
    /\ isRunning = FALSE
    /\ interval = None
    /\ timers = {}
    /\ runs = [r \in RunSources |-> 0]
    /\ listCall = NoCall
    /\ modules = << >>
    /\ removed = {}
    /\ now \in instants
    /\ \E m \in {None, Some("m1")} :
         managerOf = [f \in Facilitators |-> IF f = "f1" THEN m ELSE Some("m1")]
    /\ \E a2 \in secondAllocation :
         allocations =
            [a \in AllocationIds |->
                IF a = "a1"
                THEN [facilitatorId |-> "f1", isActive |-> TRUE, createdAt |-> OldCreatedAt]
                ELSE a2]
    /\ ticks = 0
    /\ logs = {}
    /\ notifications = << >>
    /\ queue = << >>
    /\ lastOp = Op("init", << >>, 0)

\* the states that start one second into week k + 1 of the year
InitWith(designs, startWeeks, secondAllocation) ==
    InitAt(designs, {1 + k * WeekMs : k \in startWeeks}, secondAllocation)

\* the second allocation: open for more than a week, opened just now, or closed
SecondActive ==
    { [facilitatorId |-> "f2", isActive |-> TRUE, createdAt |-> OldCreatedAt],
      [facilitatorId |-> "f2", isActive |-> TRUE, createdAt |-> 1] }

SecondInactive ==
    { [facilitatorId |-> "f2", isActive |-> FALSE, createdAt |-> 1] }

Init == InitWith({"db"}, {0}, SecondActive \cup SecondInactive)

\* the Redis worker, one active allocation, started within or past the grace weeks
QueueInit == InitWith({"redis"}, {0, GraceWeeks}, SecondInactive)

\* either design, one active allocation
WorkerInit == InitWith(Designs, {0}, SecondInactive)

\* one active allocation only
SingleInit == InitWith({"db"}, {0}, SecondInactive)

\* the Redis worker at the first second and at the second second of any day of
\* a year of 365 days
DaySec == 24 * 60 * 60
DaysInYear == 365
YearInstants == {d * DaySec + s : d \in 0..(DaysInYear - 1), s \in {0, 1}}
YearInit == InitAt({"redis"}, YearInstants, SecondInactive)

\* the database worker started in the first week past the grace threshold
LateInit == InitWith({"db"}, {GraceWeeks}, SecondInactive)

----------------------------------------------------------------------------
(* Database worker: class NotificationWorker *)

hasNoActiveLogs(a) == activityLogsActive(a) = {}

\* allocation.createdAt < oneWeekAgo
isOverdue(a) == allocations[a].createdAt < oneWeekAgo(now)

\* facilitatorsWithoutLogs: the allocations with no active log, in findAll order
facilitatorsWithoutLogs(order) == SelectSeq(order, hasNoActiveLogs)

overdueAllocations(order) == SelectSeq(order, isOverdue)

\* The body of the try block of checkForNotifications, for the row order the
\* database returned: the ledger it leaves and whether the catch was taken.
sweepOutcome(order) ==
    LET without == facilitatorsWithoutLogs(order)
        ns1 == IF Len(without) > 0
               THEN sendReminderToFacilitators(notifications, without)
               ELSE notifications
        overdue == overdueAllocations(order)
    IN  IF Len(overdue) > 0
        THEN sendDeadlineAlertToManagers(ns1, overdue)
        ELSE [ns |-> ns1, threw |-> FALSE]

\* One run of checkForNotifications: the initial run of start(), a tick of the
\* interval, or triggerNotificationCheck().
checkForNotificationsUpTo(cap) ==
    \E order \in SeqsOfSet(ActiveAllocations) :
        LET r == sweepOutcome(order)
        IN  /\ Len(r.ns) <= cap
            /\ notifications' = r.ns
            /\ lastOp' = Op("sweep", << >>, 0)
            /\ UNCHANGED <<now, ticks, managerOf, allocations, logs, queue, workerVars, listCall, modules, removed>>

checkForNotifications == checkForNotificationsUpTo(MaxNotifs)

----------------------------------------------------------------------------
(* Redis worker: checkOverdueLogs and the rpop loop *)

\* JSON.stringify of the intent object: its fields in order
JSONstringify(o) == <<o.type, o.facilitatorId, o.allocationId, o.weekNumber, o.timestamp>>

JSONparse(s) ==
    [type |-> s[1], facilitatorId |-> s[2], allocationId |-> s[3],
     weekNumber |-> s[4], timestamp |-> s[5]]

Intent(ty, a, w, t) ==
    [type |-> ty, facilitatorId |-> allocations[a].facilitatorId,
     allocationId |-> a, weekNumber |-> w, timestamp |-> t]

\* a push at the tail of the list
rpush(q, v) == q \o <<v>>

\* a push that puts the value next to the tail, ahead of all that wait
pushBeforeTail(q, v) ==
    IF q = << >> THEN <<v>>
    ELSE SubSeq(q, 1, Len(q) - 1) \o <<v, q[Len(q)]>>

\* redisClient.lpush(key, value): the value becomes the head of the list
lpush(q, v) == <<v>> \o q

\* a sweep that looks for a log of any week, as the database worker does
pushUnlessAnyLog(q, a, w, t) ==
    IF getActivityLogs(a) = {}
    THEN LET q1 == lpush(q, JSONstringify(Intent("REMINDER_FACILITATOR", a, w, t)))
         IN  IF w > GraceWeeks
             THEN lpush(q1, JSONstringify(Intent("ALERT_MANAGER", a, w, t)))
             ELSE q1
    ELSE q

\* the intents one allocation adds to the list
pushForAllocation(q, a, w, t) ==
    IF findActiveLog(a, w) = {}
    THEN LET q1 == lpush(q, JSONstringify(Intent("REMINDER_FACILITATOR", a, w, t)))
         IN  IF w > GraceWeeks
             THEN lpush(q1, JSONstringify(Intent("ALERT_MANAGER", a, w, t)))
             ELSE q1
    ELSE q

RECURSIVE pushForAllocations(_, _, _, _)
pushForAllocations(q, list, w, t) ==
    IF list = << >> THEN q
    ELSE pushForAllocations(pushForAllocation(q, Head(list), w, t), Tail(list), w, t)

checkOverdueLogs ==
    \E order \in SeqsOfSet(ActiveAllocations) :
        LET q1 == pushForAllocations(queue, order, currentWeek(now), now)
        IN  /\ Len(q1) <= MaxQueue
            /\ queue' = q1
            /\ lastOp' = Op("overdueCheck", << >>, 0)
            /\ UNCHANGED <<now, ticks, managerOf, allocations, logs, notifications, workerVars, listCall, modules, removed>>

\* redisClient.rpop(key): removes and returns the last element of the list
rpopValue(q) == q[Len(q)]

rpopRest(q) == SubSeq(q, 1, Len(q) - 1)

\* what sendEmail answers: { success: true } or { success: false }; NoAttempt
\* when the handler returned or threw before it came to sendEmail
SendFailed == 0
Sent == 1
NoAttempt == 2

\* nodemailer and the SMTP server are outside the source: the transport either
\* accepts the mail or createTransporter / sendMail throws, which sendEmail catches
TransportOutcomes == {Sent, SendFailed}

\* processNotification: handleReminderFacilitator looks the facilitator and the
\* allocation up and calls sendEmail; handleAlertManager includes the association
\* 'manager', which CourseAllocation does not have, so findByPk throws into the
\* handler's catch before any mail is sent.
\* a dispatcher that takes every id of an intent to resolve
processNotificationUnchecked(intent, transport) ==
    IF intent.type = "REMINDER_FACILITATOR" THEN transport ELSE NoAttempt

\* A type outside the switch is logged and nothing else happens; the handlers
\* of ACTIVITY_LOG_CREATED and ACTIVITY_LOG_UPDATED include 'manager' as well.
\* handleReminderFacilitator returns when findByPk finds no facilitator or no
\* allocation.
processNotification(intent, transport) ==
    IF intent.type = "REMINDER_FACILITATOR"
    THEN IF intent.facilitatorId \in removed \/ intent.allocationId \in removed
         THEN NoAttempt
         ELSE transport
    ELSE NoAttempt

\* a dispatcher that puts the intent whose send failed back on the list
requeueOnFailure(q, intent, result) ==
    IF result = SendFailed THEN <<JSONstringify(intent)>> \o q ELSE q

\* the list after the intent was processed: the callback drops the result
afterDispatch(q, intent, result) == q

\* a dispatcher that marks every notification delivered once it has processed
\* an intent, whatever the transport answered
deliveredRegardless(ns, intent, result, t) ==
    [i \in 1..Len(ns) |-> [ns[i] EXCEPT !.isDelivered = TRUE, !.deliveredAt = Some(t)]]

\* the notifications table after the intent was processed: no handler writes to it
ledgerAfterDispatch(ns, intent, result, t) == ns

\* One tick of the 30 s interval: rpop, JSON.parse, processNotification.  On an
\* empty list rpop answers null and the tick does nothing.
drainTick ==
    /\ queue # << >>
    /\ \E transport \in TransportOutcomes :
          LET intent == JSONparse(rpopValue(queue))
              result == processNotification(intent, transport)
          IN  /\ queue' = afterDispatch(rpopRest(queue), intent, result)
              /\ notifications' = ledgerAfterDispatch(notifications, intent, result, now)
              /\ lastOp' = Op("drain",
                              <<intent.type, intent.allocationId, intent.weekNumber>>,
                              result)
    /\ UNCHANGED <<now, ticks, managerOf, allocations, logs, workerVars, listCall, modules, removed>>

\* The same tick when the process ends between rpop and processNotification
\* (server.js exits on SIGTERM and SIGINT): the intent has left the list and no
\* handler has seen it.
popWithoutDispatch ==
    /\ queue # << >>
    /\ LET intent == JSONparse(rpopValue(queue))
       IN  /\ queue' = rpopRest(queue)
           /\ lastOp' = Op("lost",
                           <<intent.type, intent.allocationId, intent.weekNumber>>,
                           NoAttempt)
    /\ UNCHANGED <<now, ticks, managerOf, allocations, logs, notifications, workerVars, listCall, modules, removed>>

\* The rows of a facilitator or of an allocation leave the tables while the
\* Redis list keeps its entries: no route deletes them, databaseSetup.js
\* recreates every table with sequelize.sync({force: true}).
Removable == {"f1", "a1"}

RemoveRow(x) ==
    /\ x \notin removed
    /\ removed' = removed \cup {x}
    /\ lastOp' = Op("removeRow", << >>, 0)
    /\ UNCHANGED <<now, ticks, managerOf, allocations, logs, notifications, queue,
                   workerVars, listCall, modules>>

\* The types processNotification knows besides the two the sweep pushes, and
\* one it does not know; no code of the repository pushes them.
ForeignTypes == {"ACTIVITY_LOG_CREATED", "ACTIVITY_LOG_UPDATED", "UNKNOWN"}

PushForeign(ty, a) ==
    /\ Len(queue) < MaxQueue
    /\ queue' = lpush(queue, JSONstringify(Intent(ty, a, currentWeek(now), now)))
    /\ lastOp' = Op("pushForeign", << >>, 0)
    /\ UNCHANGED <<now, ticks, managerOf, allocations, logs, notifications,
                   workerVars, listCall, modules, removed>>

----------------------------------------------------------------------------
(* HTTP handlers: routes/notifications.js *)

\* PUT /:id/read
MarkRead(id, userId) ==
    /\ notifications' = markAsRead(notifications, id, userId, now)
    /\ lastOp' = Op("markRead", <<id, userId>>,
                    markAsReadCount(notifications, id, userId, now))
    /\ UNCHANGED <<now, ticks, managerOf, allocations, logs, queue, workerVars, listCall, modules, removed>>

\* PUT /read-all
MarkAllRead(userId) ==
    /\ notifications' = markAllRead(notifications, userId, RoleOf(userId), now)
    /\ lastOp' = Op("markAllRead", <<userId>>,
                    markAllReadCount(notifications, userId, RoleOf(userId)))
    /\ UNCHANGED <<now, ticks, managerOf, allocations, logs, queue, workerVars, listCall, modules, removed>>

\* GET /unread-count
UnreadCount(userId) ==
    /\ lastOp' = Op("unreadCount", <<userId>>,
                    getUnreadCount(notifications, userId, RoleOf(userId)))
    /\ UNCHANGED <<now, ticks, managerOf, allocations, logs, notifications, queue, workerVars, listCall, modules, removed>>

\* NotificationService.markAsDelivered(notificationId)
\* The module codes a manager sends
ModuleCodes == {"CS401", "CS402", "CS403"}

\* Module.findOne({where: {code, isActive: true}})
findActiveModule(ms, code) ==
    {i \in 1..Len(ms) : ms[i].code = code /\ ms[i].isActive}

\* a table without the index on code
uniqueCodeNotEnforced(ms, code, except) == FALSE

\* code: {unique: true}: the index covers every row, active or not
violatesUniqueCode(ms, code, except) ==
    \E i \in 1..Len(ms) : i # except /\ ms[i].code = code

\* The status code POST /modules answers with.  seen tells whether findOne saw
\* the active module with this code: a module created between the route's
\* findOne and its create is not seen.
createModuleStatus(ms, code, seen) ==
    IF findActiveModule(ms, code) # {} /\ seen THEN 409
    ELSE IF violatesUniqueCode(ms, code, 0) THEN 500
    ELSE 201

\* POST /modules by a manager
CreateModule(code) ==
    \E seen \in BOOLEAN :
        LET status == createModuleStatus(modules, code, seen)
        IN  /\ status = 201 => Len(modules) < MaxModules
            /\ modules' = IF status = 201
                          THEN Append(modules, [code |-> code, isActive |-> TRUE])
                          ELSE modules
            /\ lastOp' = Op("createModule", <<code>>, status)
            /\ UNCHANGED <<now, ticks, managerOf, allocations, logs, notifications, queue,
                           workerVars, listCall, removed>>

\* The status code PUT /modules/:id answers with
updateModuleStatus(ms, id, code, seen) ==
    IF id \notin 1..Len(ms) \/ ~ms[id].isActive THEN 404
    ELSE IF code # ms[id].code /\ findActiveModule(ms, code) # {} /\ seen THEN 409
    ELSE IF violatesUniqueCode(ms, code, id) THEN 500
    ELSE 200

\* PUT /modules/:id by a manager, with a code in the body
UpdateModule(id, code) ==
    \E seen \in BOOLEAN :
        LET status == updateModuleStatus(modules, id, code, seen)
        IN  /\ modules' = IF status = 200
                          THEN [modules EXCEPT ![id].code = code]
                          ELSE modules
            /\ lastOp' = Op("updateModule", <<code>>, status)
            /\ UNCHANGED <<now, ticks, managerOf, allocations, logs, notifications, queue,
                           workerVars, listCall, removed>>

\* DELETE /modules/:id by a manager: soft delete
DeleteModule(id) ==
    LET found == id \in 1..Len(modules) /\ modules[id].isActive
    IN  /\ modules' = IF found THEN [modules EXCEPT ![id].isActive = FALSE] ELSE modules
        /\ lastOp' = Op("deleteModule", << >>, IF found THEN 200 ELSE 404)
        /\ UNCHANGED <<now, ticks, managerOf, allocations, logs, notifications, queue,
                       workerVars, listCall, removed>>

\* The query string of GET /notifications.  limit is validated to 1..100 and
\* defaults to 50, offset to 0 or more; unreadOnly is validated as a boolean but
\* never converted, so the handler holds the string it was sent.
DefaultLimit == 50
Limits == {1, DefaultLimit}
Offsets == {0, 1}
QueryFlags == {"absent", "true", "false"}

\* if (unreadOnly): the default false when the parameter is absent, else a
\* non-empty string, which JavaScript takes as true
isTruthy(flag) == flag # "absent"

\* the rows of S from the newest to the oldest: order by createdAt DESC over
\* rows that are kept in creation order
RECURSIVE newestFirst(_, _)
newestFirst(S, n) ==
    IF n = 0 THEN << >>
    ELSE (IF n \in S THEN <<n>> ELSE << >>) \o newestFirst(S, n - 1)

\* a query that orders by createdAt ASC
RECURSIVE oldestFirst(_, _)
oldestFirst(S, n) ==
    IF n = 0 THEN << >>
    ELSE oldestFirst(S, n - 1) \o (IF n \in S THEN <<n>> ELSE << >>)

\* order: [['createdAt', 'DESC']]
orderRows(S, n) == newestFirst(S, n)

\* Notification.findAll({where, order, limit, offset}): the ids of the rows
getUserNotifications(ns, userId, userType, limit, offset, unreadOnly) ==
    LET whereClause ==
            {i \in 1..Len(ns) :
                /\ ns[i].recipientId = userId
                /\ ns[i].recipientType = userType
                /\ isTruthy(unreadOnly) => ns[i].isRead = FALSE}
        ordered == orderRows(whereClause, Len(ns))
        last == IF offset + limit < Len(ordered) THEN offset + limit ELSE Len(ordered)
    IN  SubSeq(ordered, offset + 1, last)

\* GET /notifications up to its second await: the list query has answered
ListQuery(userId, limit, offset, unreadOnly) ==
    /\ listCall.phase # "listed"
    /\ listCall' =
          [phase |-> "listed", userId |-> userId, limit |-> limit, offset |-> offset,
           unreadOnly |-> unreadOnly,
           rows |-> getUserNotifications(notifications, userId, RoleOf(userId),
                                         limit, offset, unreadOnly),
           unreadCount |-> 0]
    /\ UNCHANGED <<now, ticks, managerOf, allocations, logs, notifications, queue,
                   lastOp, workerVars, modules, removed>>

\* GET /notifications from its second await on: getUnreadCount answers and the
\* response is sent with the rows of the first query
ListRespond ==
    /\ listCall.phase = "listed"
    /\ listCall' =
          [listCall EXCEPT
              !.phase = "answered",
              !.unreadCount = getUnreadCount(notifications, listCall.userId,
                                             RoleOf(listCall.userId))]
    /\ UNCHANGED <<now, ticks, managerOf, allocations, logs, notifications, queue,
                   lastOp, workerVars, modules, removed>>

\* a direct call of NotificationService.createNotification
CreateInput(recipientId, recipientType, type) ==
    [ recipientId       |-> recipientId,
      recipientType     |-> recipientType,
      type              |-> type,
      title             |-> "title",
      message           |-> <<"message", "a1">>,
      relatedEntityId   |-> <<"a1">>,
      relatedEntityType |-> "allocation",
      metadata          |-> [allocationId |-> "a1"] ]

CreateInputs ==
    { CreateInput(r, rt, ty) :
        r \in {"f1", Undefined},
        rt \in RecipientTypes \cup {"student"},
        ty \in NotificationTypes \cup {"info"} }

Create(spec) ==
    /\ Len(notifications) < MaxNotifs
    /\ notifications' = createNotificationChecked(notifications, spec)
    /\ lastOp' = Op("create", <<spec.recipientId, spec.recipientType, spec.type>>,
                    createOutcome(spec))
    /\ UNCHANGED <<now, ticks, managerOf, allocations, logs, queue, workerVars, listCall, modules, removed>>

MarkDelivered(id) ==
    /\ notifications' = markAsDelivered(notifications, id, now)
    /\ lastOp' = Op("markDelivered", <<id>>, 0)
    /\ UNCHANGED <<now, ticks, managerOf, allocations, logs, queue, workerVars, listCall, modules, removed>>

----------------------------------------------------------------------------
(* HTTP handlers: routes/activityTracker.js *)

\* id tells the rows of one allocation and week apart
NewLog(a, w) ==
    [allocationId |-> a, weekNumber |-> w, isActive |-> TRUE,
     id |-> Cardinality({l \in logs : l.allocationId = a /\ l.weekNumber = w})]

\* a table without the index unique_activity_tracker
noUniqueIndex(a, w) == FALSE

\* unique index unique_activity_tracker (allocation_id, week_number)
violatesUniqueIndex(a, w) ==
    \E l \in logs : l.allocationId = a /\ l.weekNumber = w

\* a service that writes the notification before it has resolved the manager
sendSubmissionAlertUnresolved(ns, l) ==
    LET manager == getManager(l.allocationId)
    IN  createNotification(ns, SubmissionSpec(l, IF manager = None THEN Undefined
                                                 ELSE manager[1]))

\* sendSubmissionAlertToManager inside the route's try/catch: a facilitator
\* without manager makes manager.id throw, which the route swallows.
sendSubmissionAlertToManager(ns, l) ==
    LET manager == getManager(l.allocationId)
    IN  IF manager = None
        THEN ns
        ELSE createNotification(ns, SubmissionSpec(l, manager[1]))

\* The status code POST /activity-tracker answers with
\* seen tells whether the route's findOne saw the active log of (a, w): a log
\* that another request creates between findOne and create is not seen.
submitStatusSeen(f, a, w, seen) ==
    IF ~allocations[a].isActive THEN 404
    ELSE IF allocations[a].facilitatorId # f THEN 403
    ELSE IF findActiveLog(a, w) # {} /\ seen THEN 409
    ELSE IF violatesUniqueIndex(a, w) THEN 500
    ELSE 201

submitStatus(f, a, w) == submitStatusSeen(f, a, w, TRUE)

\* POST /activity-tracker by facilitator f
SubmitLogUpTo(cap, f, a, w) ==
    LET status == submitStatus(f, a, w)
        ns1 == sendSubmissionAlertToManager(notifications, NewLog(a, w))
    IN  /\ status = 201 => Len(ns1) <= cap
        /\ logs' = IF status = 201 THEN logs \cup {NewLog(a, w)} ELSE logs
        /\ notifications' = IF status = 201 THEN ns1 ELSE notifications
        /\ lastOp' = Op("submitLog", << >>, status)
        /\ UNCHANGED <<now, ticks, managerOf, allocations, queue, workerVars, listCall, modules, removed>>

SubmitLog(f, a, w) == SubmitLogUpTo(MaxNotifs, f, a, w)

\* POST /activity-tracker by facilitator f whose findOne ran before the create
\* of a concurrent request for the same allocation and week
SubmitLogStale(f, a, w) ==
    LET status == submitStatusSeen(f, a, w, FALSE)
        ns1 == sendSubmissionAlertToManager(notifications, NewLog(a, w))
    IN  /\ findActiveLog(a, w) # {}
        /\ status = 201 => Len(ns1) <= SingleNotifs
        /\ logs' = IF status = 201 THEN logs \cup {NewLog(a, w)} ELSE logs
        /\ notifications' = IF status = 201 THEN ns1 ELSE notifications
        /\ lastOp' = Op("submitLog", << >>, status)
        /\ UNCHANGED <<now, ticks, managerOf, allocations, queue, workerVars, listCall,
                       modules, removed>>

\* The status code PUT /activity-tracker/:id answers with
updateStatus(c, a, w) ==
    IF findActiveLog(a, w) = {} THEN 404
    ELSE IF RoleOf(c) = "facilitator" /\ allocations[a].facilitatorId # c THEN 403
    ELSE 200

\* PUT /activity-tracker/:id by user c for the log of allocation a and week w:
\* the fields it updates are not part of the model; after the update the route
\* calls sendSubmissionAlertToManager as POST does
UpdateLogUpTo(cap, c, a, w) ==
    LET status == updateStatus(c, a, w)
        ns1 == sendSubmissionAlertToManager(notifications, NewLog(a, w))
    IN  /\ status = 200 => Len(ns1) <= cap
        /\ notifications' = IF status = 200 THEN ns1 ELSE notifications
        /\ lastOp' = Op("updateLog", << >>, status)
        /\ UNCHANGED <<now, ticks, managerOf, allocations, logs, queue, workerVars, listCall, modules, removed>>

\* DELETE /activity-tracker/:id by a manager: soft delete
DeleteLog(a, w) ==
    LET found == findActiveLog(a, w)
    IN  /\ logs' = IF found = {}
                   THEN logs
                   ELSE (logs \ found) \cup {[l EXCEPT !.isActive = FALSE] : l \in found}
        /\ lastOp' = Op("deleteLog", << >>, IF found = {} THEN 404 ELSE 200)
        /\ UNCHANGED <<now, ticks, managerOf, allocations, notifications, queue, workerVars, listCall, modules, removed>>

----------------------------------------------------------------------------
(* The clock *)

Tick ==
    /\ ticks < MaxTicks
    /\ ticks' = ticks + 1
    /\ now' = now + WeekMs
    /\ lastOp' = Op("tick", << >>, 0)
    /\ UNCHANGED <<managerOf, allocations, logs, notifications, queue, workerVars, listCall, modules, removed>>

----------------------------------------------------------------------------
(* Worker scheduler: start / stop / timers, and the runs they have in flight *)

RECURSIVE SumRuns(_, _)
SumRuns(f, S) ==
    IF S = {} THEN 0
    ELSE LET x == CHOOSE y \in S : TRUE
         IN  f[x] + SumRuns(f, S \ {x})

\* the invocations of checkForNotifications / checkOverdueLogs / the rpop
\* callback that have begun and not yet settled
RunCount == SumRuns(runs, RunSources)

beginRun(r) == [runs EXCEPT ![r] = @ + 1]
endRun(r) == [runs EXCEPT ![r] = @ - 1]

\* the handles setInterval has returned so far are 1..timerCount
timerCount ==
    IF design = "db"
    THEN (IF interval = None THEN 0 ELSE interval[1])
    ELSE Cardinality(timers)

\* startNotificationWorker (Redis) arms the rpop timer first, the sweep timer second
kindOf(t) == IF design = "redis" /\ t % 2 = 1 THEN "drain" ELSE "sweep"

\* what a callback's promise settles with: 0 fulfilled, 1 fulfilled after its
\* catch block logged the error, 2 rejected
Fulfilled == 0
Caught == 1
Rejected == 2

\* a run without the catch block: the error leaves the async function
checkForNotificationsRethrow(threw) == IF threw THEN Rejected ELSE Fulfilled

\* try { ... } catch (error) { console.error(...) } around checkForNotifications
checkForNotificationsCatch(threw) == IF threw THEN Caught ELSE Fulfilled

\* the same around checkOverdueLogs
checkOverdueLogsCatch(threw) == IF threw THEN Caught ELSE Fulfilled

\* the same inside the rpop callback
drainCatch(threw) == IF threw THEN Caught ELSE Fulfilled

\* A rejected promise of a timer callback is an unhandled rejection, which ends
\* the process and its timers with it.
timersAfter(settled, ts) == IF settled = Rejected THEN {} ELSE ts

\* NotificationWorker.start(), up to its await of the first sweep
StartDb ==
    /\ design = "db"
    /\ IF isRunning
       THEN /\ lastOp' = Op("start", << >>, 0)
            /\ UNCHANGED <<isRunning, runs, listCall, modules, removed>>
       ELSE /\ RunCount < MaxRuns
            /\ isRunning' = TRUE
            /\ runs' = beginRun(StartRun)
            /\ lastOp' = Op("start", << >>, 1)
    /\ UNCHANGED <<now, ticks, managerOf, allocations, logs, notifications, queue,
                   design, interval, timers, listCall, modules, removed>>

\* NotificationWorker.stop(), called directly or by the SIGTERM / SIGINT handler
Stop(via) ==
    /\ design = "db"
    /\ IF ~isRunning
       THEN /\ lastOp' = Op("stop", <<via>>, 0)
            /\ UNCHANGED <<isRunning, timers, listCall, modules, removed>>
       ELSE /\ isRunning' = FALSE
            /\ timers' = IF interval # None THEN timers \ {interval[1]} ELSE timers
            /\ lastOp' = Op("stop", <<via>>, 1)
    /\ UNCHANGED <<now, ticks, managerOf, allocations, logs, notifications, queue,
                   design, interval, runs, listCall, modules, removed>>

\* triggerNotificationCheck(), up to its await
Trigger ==
    /\ design = "db"
    /\ RunCount < MaxRuns
    /\ runs' = beginRun(ManualRun)
    /\ lastOp' = Op("trigger", << >>, 0)
    /\ UNCHANGED <<now, ticks, managerOf, allocations, logs, notifications, queue,
                   design, isRunning, interval, timers, listCall, modules, removed>>

\* startNotificationWorker() of the Redis worker: two setInterval calls
StartRedis ==
    /\ design = "redis"
    /\ timerCount + 2 <= MaxTimers
    /\ timers' = timers \cup {timerCount + 1, timerCount + 2}
    /\ lastOp' = Op("start", << >>, 1)
    /\ UNCHANGED <<now, ticks, managerOf, allocations, logs, notifications, queue,
                   design, isRunning, interval, runs, listCall, modules, removed>>

\* An armed interval timer fires: its callback begins and reaches its first await.
TimerFire(t) ==
    /\ t \in timers
    /\ RunCount < MaxRuns
    /\ runs' = beginRun(TimerRun(t))
    /\ lastOp' = Op("timer", <<t>>, 0)
    /\ UNCHANGED <<now, ticks, managerOf, allocations, logs, notifications, queue,
                   design, isRunning, interval, timers, listCall, modules, removed>>

\* A run of checkForNotifications settles.  fault: a query of the run rejected
\* (the database is unreachable).  The writes of the run are taken at this point.
\* The run that start() awaits is followed by start()'s setInterval.
SweepEndDb(r, fault) ==
    /\ design = "db"
    /\ runs[r] > 0
    /\ r \in {StartRun, ManualRun} \/ kindOf(r[2]) = "sweep"
    /\ \E order \in SeqsOfSet(ActiveAllocations) :
          LET out == IF fault
                     THEN [ns |-> notifications, threw |-> TRUE]
                     ELSE sweepOutcome(order)
              settled == checkForNotificationsCatch(out.threw)
              armed == r = StartRun /\ settled # Rejected
          IN  /\ Len(out.ns) <= SingleNotifs
              /\ armed => timerCount < MaxTimers
              /\ notifications' = out.ns
              /\ runs' = endRun(r)
              /\ interval' = IF armed THEN Some(timerCount + 1) ELSE interval
              /\ timers' = timersAfter(settled,
                               IF armed THEN timers \cup {timerCount + 1} ELSE timers)
              /\ lastOp' = Op("sweepEnd", r, settled)
    /\ UNCHANGED <<now, ticks, managerOf, allocations, logs, queue, design, isRunning, listCall, modules, removed>>

\* A run of checkOverdueLogs settles.  fault: a query or an lpush rejected.
SweepEndRedis(t, fault) ==
    /\ design = "redis"
    /\ runs[TimerRun(t)] > 0
    /\ kindOf(t) = "sweep"
    /\ \E order \in SeqsOfSet(ActiveAllocations) :
          LET q1 == IF fault THEN queue
                    ELSE pushForAllocations(queue, order, currentWeek(now), now)
              settled == checkOverdueLogsCatch(fault)
          IN  /\ Len(q1) <= MaxQueue
              /\ queue' = q1
              /\ runs' = endRun(TimerRun(t))
              /\ timers' = timersAfter(settled, timers)
              /\ lastOp' = Op("sweepEnd", TimerRun(t), settled)
    /\ UNCHANGED <<now, ticks, managerOf, allocations, logs, notifications,
                   design, isRunning, interval, listCall, modules, removed>>

\* A run of the rpop callback settles.  fault: rpop rejected.
DrainEnd(t, fault) ==
    /\ design = "redis"
    /\ runs[TimerRun(t)] > 0
    /\ kindOf(t) = "drain"
    /\ LET settled == drainCatch(fault)
       IN  /\ queue' = IF fault \/ queue = << >> THEN queue ELSE rpopRest(queue)
           /\ runs' = endRun(TimerRun(t))
           /\ timers' = timersAfter(settled, timers)
           /\ lastOp' = Op("drainEnd", TimerRun(t), settled)
    /\ UNCHANGED <<now, ticks, managerOf, allocations, logs, notifications,
                   design, isRunning, interval, listCall, modules, removed>>

----------------------------------------------------------------------------
(* Specifications *)

MarkReadUpTo(cap) == \E id \in 1..cap, u \in Callers : MarkRead(id, u)
MarkReadAny == MarkReadUpTo(MaxNotifs)
MarkAllReadAny == \E u \in Callers : MarkAllRead(u)
UnreadCountAny == \E u \in Callers : UnreadCount(u)
MarkDeliveredAny == \E id \in 1..MaxNotifs : MarkDelivered(id)
SubmitLogUpToAny(cap) ==
    \E f \in Facilitators, a \in AllocationIds, w \in LogWeeks(now) :
        SubmitLogUpTo(cap, f, a, w)
SubmitLogAny == SubmitLogUpToAny(MaxNotifs)
DeleteLogAny == \E a \in AllocationIds, w \in LogWeeks(now) : DeleteLog(a, w)

\* The database worker next to the notification and activity-tracker routes
Next ==
    \/ checkForNotifications
    \/ MarkReadAny
    \/ MarkAllReadAny
    \/ UnreadCountAny
    \/ SubmitLogAny
    \/ Tick

Spec == Init /\ [][Next]_vars

\* The ledger operations, markAsDelivered included
LedgerNext ==
    \/ checkForNotifications
    \/ MarkReadAny
    \/ MarkAllReadAny
    \/ MarkDeliveredAny
    \/ SubmitLogAny
    \/ Tick

LedgerSpec == SingleInit /\ [][LedgerNext]_vars


SingleNext ==
    \/ checkForNotificationsUpTo(SingleNotifs)
    \/ MarkReadUpTo(SingleNotifs)
    \/ SubmitLogUpToAny(SingleNotifs)
    \/ Tick

SingleSpec == SingleInit /\ [][SingleNext]_vars

\* The Redis worker at any day of the year
YearNext ==
    \/ checkOverdueLogs
    \/ drainTick

YearSpec == YearInit /\ [][YearNext]_vars

\* The database worker past the grace threshold
LateNext ==
    \/ checkForNotificationsUpTo(SingleNotifs)
    \/ MarkReadUpTo(SingleNotifs)

LateSpec == LateInit /\ [][LateNext]_vars

\* The database worker next to POST and PUT of the activity tracker
UpdateLogAny ==
    \E c \in Users, a \in AllocationIds, w \in LogWeeks(now) :
        UpdateLogUpTo(SingleNotifs, c, a, w)

CrudNext ==
    \/ checkForNotificationsUpTo(SingleNotifs)
    \/ SubmitLogUpToAny(SingleNotifs)
    \/ UpdateLogAny

CrudSpec == SingleInit /\ [][CrudNext]_vars

\* The module routes
CreateModuleAny == \E code \in ModuleCodes : CreateModule(code)
UpdateModuleAny == \E id \in 1..MaxModules, code \in ModuleCodes : UpdateModule(id, code)
DeleteModuleAny == \E id \in 1..MaxModules : DeleteModule(id)

ModuleNext ==
    \/ CreateModuleAny
    \/ UpdateModuleAny
    \/ DeleteModuleAny

ModuleSpec == SingleInit /\ [][ModuleNext]_vars

\* The activity-tracker routes with requests that run together
SubmitLogStaleAny ==
    \E f \in Facilitators, a \in AllocationIds, w \in LogWeeks(now) :
        SubmitLogStale(f, a, w)

RaceNext ==
    \/ SubmitLogUpToAny(SingleNotifs)
    \/ SubmitLogStaleAny
    \/ DeleteLogAny
    \/ Tick

RaceSpec == SingleInit /\ [][RaceNext]_vars

\* The notification routes of one client next to the sweep
ListQueryAny ==
    \E u \in Callers, limit \in Limits, offset \in Offsets, flag \in QueryFlags :
        ListQuery(u, limit, offset, flag)

ListNext ==
    \/ checkForNotifications
    \/ MarkReadAny
    \/ MarkAllReadAny
    \/ ListQueryAny
    \/ ListRespond

ListSpec == SingleInit /\ [][ListNext]_vars

\* The notification service called directly, next to the read route
CreateAny == \E spec \in CreateInputs : Create(spec)

CreateNext ==
    \/ CreateAny
    \/ MarkReadAny

CreateSpec == SingleInit /\ [][CreateNext]_vars

\* The Redis worker next to the activity-tracker routes
QueueNext ==
    \/ checkOverdueLogs
    \/ drainTick
    \/ SubmitLogAny
    \/ DeleteLogAny
    \/ Tick

QueueSpec == QueueInit /\ [][QueueNext]_vars

\* The Redis worker whose 30 s interval keeps firing: setInterval is never
\* cleared and the callback catches whatever a tick throws
QueueLiveNext ==
    \/ checkOverdueLogs
    \/ drainTick
    \/ Tick

QueueLiveSpec == QueueInit /\ [][QueueLiveNext]_vars /\ WF_vars(drainTick)

\* The Redis worker with rows that disappear and with foreign intents
RemoveRowAny == \E x \in Removable : RemoveRow(x)
PushForeignAny == \E ty \in ForeignTypes : PushForeign(ty, "a1")

DispatchNext ==
    \/ checkOverdueLogs
    \/ drainTick
    \/ RemoveRowAny
    \/ PushForeignAny

DispatchSpec == QueueInit /\ [][DispatchNext]_vars

\* The Redis worker with a process that can end between rpop and dispatch.
LossNext ==
    \/ checkOverdueLogs
    \/ drainTick
    \/ popWithoutDispatch
    \/ SubmitLogAny
    \/ Tick

LossSpec == QueueInit /\ [][LossNext]_vars


StopAny == \E via \in {"call", "signal"} : Stop(via)
TimerFireAny == \E t \in TimerIds : TimerFire(t)
SweepEndDbAny == \E r \in RunSources, fault \in BOOLEAN : SweepEndDb(r, fault)
SweepEndRedisAny == \E t \in TimerIds, fault \in BOOLEAN : SweepEndRedis(t, fault)
DrainEndAny == \E t \in TimerIds, fault \in BOOLEAN : DrainEnd(t, fault)

WorkerNext ==
    \/ StartDb
    \/ StopAny
    \/ Trigger
    \/ StartRedis
    \/ TimerFireAny
    \/ SweepEndDbAny
    \/ SweepEndRedisAny
    \/ DrainEndAny

WorkerSpec == WorkerInit /\ [][WorkerNext]_vars

----------------------------------------------------------------------------
(* Vocabulary of the claims *)

Rows == 1..Len(notifications)

\* the rows a step appended
NewRows == (Len(notifications) + 1)..Len(notifications')

IsReminderFor(n, a) ==
    /\ n.type = "reminder"
    /\ n.relatedEntityType = "allocation"
    /\ n.relatedEntityId = <<a>>

\* an alert about allocation a addressed to a manager
IsAlertFor(n, a) ==
    /\ n.type \in {"alert", "deadline"}
    /\ n.recipientType = "manager"
    /\ n.relatedEntityType = "allocation"
    /\ n.relatedEntityId = <<a>>

NonCompliant(a) == findActiveLog(a, currentWeek(now)) = {}

UnreadReminders(a) ==
    {i \in Rows : IsReminderFor(notifications[i], a) /\ ~notifications[i].isRead}

Owns(u, id) == id \in Rows /\ notifications[id].recipientId = u

\* a step of the database worker's sweep, whatever the ledger's cap
SweepStep == checkForNotificationsUpTo(SingleNotifs)

----------------------------------------------------------------------------
(* C1 *)

\* C1: after one or more sweeps, every active allocation without a compliance
\* record for the current week has exactly one unread reminder.  While the
\* clock has not advanced every row was created in the current week, and a
\* state whose last handler was the sweep has no markRead after it.
C1_ExactlyOneUnreadReminder ==
    (lastOp.op = "sweep" /\ ticks = 0) =>
        \A a \in ActiveAllocations :
            NonCompliant(a) => Cardinality(UnreadReminders(a)) = 1

----------------------------------------------------------------------------
(* C2 *)

\* C2: markRead on a notification its owner has already read leaves isRead
\* true, reports zero rows updated, and leaves readAt as the first call set it.
C2_MarkReadIdempotent ==
    [][\A id \in 1..MaxNotifs, u \in Callers :
          (Owns(u, id) /\ notifications[id].isRead /\ MarkRead(id, u)) =>
              /\ notifications'[id].isRead
              /\ lastOp'.result = 0
              /\ notifications'[id].readAt = notifications[id].readAt]_vars

----------------------------------------------------------------------------
(* C3 *)

\* C3: markRead(id, recipientId) for an id that belongs to another recipient,
\* or to nobody, reports zero rows updated and changes no notification.
C3_MarkReadOwnership ==
    [][\A id \in 1..MaxNotifs, u \in Callers :
          (MarkRead(id, u) /\ ~Owns(u, id)) =>
              /\ lastOp'.result = 0
              /\ notifications' = notifications]_vars

\* a caller was refused on an unread notification of somebody else
C3_Witness ==
    /\ lastOp.op = "markRead"
    /\ lastOp.result = 0
    /\ lastOp.args[1] \in Rows
    /\ notifications[lastOp.args[1]].recipientId # lastOp.args[2]
    /\ ~notifications[lastOp.args[1]].isRead

----------------------------------------------------------------------------
(* C4 *)

\* the ledger rows of a recipient, and those of them that are read
RowsOf(u, t) ==
    {i \in Rows : notifications[i].recipientId = u /\ notifications[i].recipientType = t}

ReadRowsOf(u, t) == {i \in RowsOf(u, t) : notifications[i].isRead}

\* C4: in every reachable state unreadCount(recipientId, recipientType) is the
\* number of the recipient's rows that are not read, and GET /unread-count
\* answers with that number.
C4_UnreadCountMatches ==
    /\ \A u \in Users, t \in {"manager", "facilitator"} :
          getUnreadCount(notifications, u, t)
              = Cardinality(RowsOf(u, t)) - Cardinality(ReadRowsOf(u, t))
    /\ lastOp.op = "unreadCount" =>
          lastOp.result
              = Cardinality(RowsOf(lastOp.args[1], RoleOf(lastOp.args[1])))
                  - Cardinality(ReadRowsOf(lastOp.args[1], RoleOf(lastOp.args[1])))

\* a recipient with read and unread rows asked for the count
C4_Witness ==
    /\ lastOp.op = "unreadCount"
    /\ lastOp.result > 0
    /\ ReadRowsOf(lastOp.args[1], RoleOf(lastOp.args[1])) # {}

----------------------------------------------------------------------------
(* C5 *)

\* C5: readAt is set iff isRead, and a read notification stays read with the
\* readAt it has, whatever runs later.
C5_ReadMonotonic ==
    [][/\ \A i \in 1..Len(notifications') :
             notifications'[i].isRead <=> notifications'[i].readAt # None
       /\ \A i \in Rows :
             notifications[i].isRead =>
                 /\ notifications'[i].isRead
                 /\ notifications'[i].readAt = notifications[i].readAt]_vars

----------------------------------------------------------------------------
(* C6 *)

ImmutablePart(n) ==
    <<n.id, n.recipientId, n.recipientType, n.type, n.title, n.message, n.relatedEntityId,
      n.relatedEntityType, n.scheduledFor, n.metadata>>

\* C6: a step changes no field of an existing notification other than the
\* pairs isRead/readAt and isDelivered/deliveredAt, and writes neither pair
\* once it is set.
C6_ImmutableExceptPairs ==
    [][\A i \in Rows :
          /\ ImmutablePart(notifications'[i]) = ImmutablePart(notifications[i])
          /\ notifications[i].isRead =>
                /\ notifications'[i].isRead
                /\ notifications'[i].readAt = notifications[i].readAt
          /\ notifications[i].isDelivered =>
                /\ notifications'[i].isDelivered
                /\ notifications'[i].deliveredAt = notifications[i].deliveredAt]_vars

----------------------------------------------------------------------------
(* C7 *)

\* the allocations whose manager lookup throws in sendDeadlineAlertToManagers
LookupFails(a) == isOverdue(a) /\ getManager(a) = None

\* C7: a sweep in which the manager lookup of one allocation fails still gives
\* every other active allocation what the sweep owes it: its reminder when it
\* has no activity log, its deadline alert when it is overdue and its
\* facilitator has a manager.
C7_FailureDoesNotAbortSweep ==
    [][(SweepStep /\ \E b \in ActiveAllocations : LookupFails(b)) =>
          \A a \in ActiveAllocations :
              /\ getActivityLogs(a) = {} =>
                    \E i \in NewRows : IsReminderFor(notifications'[i], a)
              /\ (isOverdue(a) /\ getManager(a) # None) =>
                    \E i \in NewRows : IsAlertFor(notifications'[i], a)]_vars

----------------------------------------------------------------------------
(* C8 *)

\* C8: for an active allocation without a compliance record for the current
\* week a sweep produces a reminder for the facilitator, and an alert for the
\* manager iff the current week exceeds the grace threshold of 2 (week 3: both,
\* week 1: the reminder only).
C8_EscalationByWeek ==
    [][SweepStep =>
          \A a \in ActiveAllocations :
              NonCompliant(a) =>
                  /\ \E i \in NewRows :
                        /\ IsReminderFor(notifications'[i], a)
                        /\ notifications'[i].recipientId = allocations[a].facilitatorId
                  /\ (\E i \in NewRows : IsAlertFor(notifications'[i], a))
                        <=> currentWeek(now) > GraceWeeks]_vars

----------------------------------------------------------------------------
(* C9 *)

\* C9: a sweep creates no reminder for an allocation that has an active
\* compliance record for the current week, and the notifications that exist
\* stay in the ledger, each as it is, through every step that is not a mark-read.
C9_NoReminderAfterSubmission ==
    [][/\ SweepStep =>
             \A a \in ActiveAllocations :
                 ~NonCompliant(a) =>
                     ~\E i \in NewRows : IsReminderFor(notifications'[i], a)
       /\ Len(notifications') >= Len(notifications)
       /\ lastOp'.op \notin {"markRead", "markAllRead"} =>
             \A i \in Rows :
                 /\ ImmutablePart(notifications'[i]) = ImmutablePart(notifications[i])
                 /\ notifications'[i].isRead = notifications[i].isRead]_vars

IsSubmissionFor(n, a, w) ==
    /\ n.type = "submission"
    /\ n.relatedEntityType = "activity_tracker"
    /\ n.relatedEntityId = <<a, w>>

\* a sweep ran after the facilitator filed the week's record, which came after
\* the reminder and the alert of an earlier sweep in the same week
C9_Witness ==
    /\ lastOp.op = "sweep"
    /\ ticks = 0
    /\ \E a \in ActiveAllocations :
          /\ ~NonCompliant(a)
          /\ \E i, j, k \in Rows :
                /\ i < k /\ j < k
                /\ IsReminderFor(notifications[i], a)
                /\ IsAlertFor(notifications[j], a)
                /\ IsSubmissionFor(notifications[k], a, currentWeek(now))

----------------------------------------------------------------------------
(* C10 *)

\* C10: a sweep ensures a reminder for an active allocation iff the allocation
\* has no active compliance record for the current week: after the sweep an
\* unread reminder exists for every such allocation, records of earlier weeks
\* notwithstanding, and the sweep creates none for the others.
C10_CompliancePerCurrentWeek ==
    [][SweepStep =>
          \A a \in ActiveAllocations :
              /\ NonCompliant(a) =>
                    \E i \in 1..Len(notifications') :
                        /\ IsReminderFor(notifications'[i], a)
                        /\ ~notifications'[i].isRead
              /\ ~NonCompliant(a) =>
                    ~\E i \in NewRows : IsReminderFor(notifications'[i], a)]_vars

----------------------------------------------------------------------------
(* C11 *)

\* the scheduler's state: the flag of the database worker; the Redis worker
\* keeps none, it runs from the moment its timers are armed
Running == IF design = "db" THEN isRunning ELSE timers # {}

StartStep == StartDb \/ StartRedis

\* C11: start() of a stopped scheduler leaves it running; start() of a running
\* one changes neither the state nor the armed timers nor the runs in flight;
\* stop() of a running scheduler leaves it stopped; stop() of a stopped one
\* changes nothing.
C11_TwoStateScheduler ==
    [][/\ (StartStep /\ ~Running) => Running'
       /\ (StartStep /\ Running) =>
             /\ Running'
             /\ timers' = timers
             /\ runs' = runs
       /\ (StopAny /\ Running) => ~Running'
       /\ (StopAny /\ ~Running) =>
             /\ ~Running'
             /\ timers' = timers
             /\ runs' = runs]_vars

----------------------------------------------------------------------------
(* C12 *)

\* C12: of no timer are two callbacks in flight at once.
C12_NoOverlapPerTimer ==
    \A t \in TimerIds : runs[TimerRun(t)] <= 1

----------------------------------------------------------------------------
(* C13 *)

\* C13: in the database worker at most one compliance sweep is in flight, be it
\* manual, scheduled or the first sweep of start().
C13_SweepsSerialized ==
    design = "db" => RunCount <= 1

----------------------------------------------------------------------------
(* C14 *)

\* C14: a timer of the database worker fires only while the worker is running,
\* so none fires between a stop() and the next start().
C14_NoTickAfterStop ==
    [][(design = "db" /\ TimerFireAny) => isRunning]_vars

----------------------------------------------------------------------------
(* C15 *)

RunEndStep == SweepEndDbAny \/ SweepEndRedisAny \/ DrainEndAny

\* C15: no run of a sweep or of a drain settles with a rejection, and none
\* takes an armed timer away.
C15_CallbacksCatchAll ==
    [][RunEndStep =>
          /\ lastOp'.result # Rejected
          /\ timers \subseteq timers']_vars

\* the unit of work of a timer failed, the catch block took the error, and the
\* timer is still armed
C15_Witness ==
    /\ lastOp.op \in {"sweepEnd", "drainEnd"}
    /\ lastOp.result = Caught
    /\ lastOp.args[1] = "timer"
    /\ lastOp.args[2] \in timers

----------------------------------------------------------------------------
(* C16 *)

\* the entries a step added at the head of the list
Pushed == SubSeq(queue', 1, Len(queue') - Len(queue))

\* q is what is left of r behind its first Len(r) - Len(q) entries
IsTailOf(q, r) ==
    /\ Len(q) <= Len(r)
    /\ q = SubSeq(r, Len(r) - Len(q) + 1, Len(r))

IdentityOf(intent) == <<intent.type, intent.allocationId, intent.weekNumber>>

\* C16: the list is first in, first out.  A sweep puts its intents in front of
\* all that are waiting, in the order it made them; a dispatcher tick takes one
\* entry, the one at the far end, which waited longest, and leaves the others
\* in place; no other step touches the list.
C16_QueueIsFifo ==
    [][/\ checkOverdueLogs => IsTailOf(queue, queue')
       /\ drainTick =>
             /\ queue' = SubSeq(queue, 1, Len(queue) - 1)
             /\ lastOp'.args = IdentityOf(JSONparse(queue[Len(queue)]))
       /\ ~(checkOverdueLogs \/ drainTick) => queue' = queue]_vars

\* a sweep queued the reminder and then the alert of an allocation; the tick
\* took the reminder and the alert waits at the far end
C16_Witness ==
    /\ lastOp.op = "drain"
    /\ lastOp.args[1] = "REMINDER_FACILITATOR"
    /\ queue # << >>
    /\ IdentityOf(JSONparse(queue[Len(queue)])) =
          <<"ALERT_MANAGER", lastOp.args[2], lastOp.args[3]>>

----------------------------------------------------------------------------
(* C17 *)

\* C17: a dispatcher tick never makes the list longer, and the intent whose
\* send failed is gone from it: the list is what it was without its last entry.
C17_FailedIntentDropped ==
    [][drainTick =>
          /\ Len(queue') <= Len(queue)
          /\ lastOp'.result = SendFailed => queue' = rpopRest(queue)]_vars

\* a send failed while other intents were waiting
C17_Witness ==
    /\ lastOp.op = "drain"
    /\ lastOp.result = SendFailed
    /\ queue # << >>

----------------------------------------------------------------------------
(* C18 *)

\* C18: a dispatcher tick whose send did not succeed leaves every notification
\* as it was, and isDelivered turns true in no step other than a tick whose
\* send succeeded.
C18_FailedSendLeavesLedger ==
    [][/\ (drainTick /\ lastOp'.result # Sent) => notifications' = notifications
       /\ \A i \in Rows :
             (~notifications[i].isDelivered /\ notifications'[i].isDelivered) =>
                 (drainTick /\ lastOp'.result = Sent)]_vars

\* a send failed while the ledger held an undelivered, unread notification
C18_Witness ==
    /\ lastOp.op = "drain"
    /\ lastOp.result = SendFailed
    /\ \E i \in Rows : ~notifications[i].isDelivered /\ ~notifications[i].isRead

----------------------------------------------------------------------------
(* C19 *)

----------------------------------------------------------------------------
(* C20 *)

\* C20: the sweep that follows a failed dispatch of an intent queues no intent
\* of the same type for the same allocation and week.
C20_NoRetryAcrossSweeps ==
    [][(lastOp.op = "drain" /\ lastOp.result = SendFailed /\ checkOverdueLogs) =>
          \A k \in 1..Len(Pushed) :
              IdentityOf(JSONparse(Pushed[k])) # lastOp.args]_vars

\* C21: an intent that left the list without being dispatched is regenerated:
\* when the sweep runs right after the loss, in the week the lost intent was
\* queued for, and the allocation still has no active log for that week, the
\* sweep pushes an intent of the same type, allocation and week again.
LostAndStillNonCompliant ==
    /\ lastOp.op = "lost"
    /\ lastOp.args[2] \in ActiveAllocations
    /\ findActiveLog(lastOp.args[2], lastOp.args[3]) = {}

Regenerated ==
    \E i \in 1..Len(Pushed) : IdentityOf(JSONparse(Pushed[i])) = lastOp.args

C21_LostIntentRegenerated ==
    [][(LostAndStillNonCompliant /\ lastOp.args[3] = currentWeek(now) /\ checkOverdueLogs)
          => Regenerated]_vars

C21_Witness ==
    /\ LostAndStillNonCompliant
    /\ lastOp.args[3] = currentWeek(now)
    /\ lastOp.args[1] = "ALERT_MANAGER"
    /\ Len(queue) + 2 <= MaxQueue

\* C21 as stated: the next sweep regenerates the intent of any week for which
\* the allocation is still non-compliant
C21_AsStated ==
    [][(LostAndStillNonCompliant /\ checkOverdueLogs) => Regenerated]_vars

\* C22: marking a notification delivered a second time is a no-op: the row
\* stays delivered and deliveredAt keeps the value of the first call.
C22_MarkDeliveredIdempotent ==
    [][\A id \in Rows :
          (notifications[id].isDelivered /\ lastOp'.op = "markDelivered" /\ MarkDelivered(id))
             => /\ notifications'[id].isDelivered
                /\ notifications'[id].deliveredAt = notifications[id].deliveredAt]_vars

\* C23: markRead and markAllRead of one recipient, in whatever order their
\* updates reach the table, lose no update: every row a request targets is read
\* after it, and no request writes the readAt of a row that already has one.
ReadRequest(u) ==
    /\ lastOp'.op \in {"markRead", "markAllRead"}
    /\ \/ MarkAllRead(u)
       \/ \E id \in 1..MaxNotifs : MarkRead(id, u)

TargetedBy(u, i) ==
    \/ lastOp'.op = "markAllRead" /\ i \in RowsOf(u, RoleOf(u))
    \/ lastOp'.op = "markRead" /\ lastOp'.args[1] = i /\ Owns(u, i)

C23_ConcurrentReadsWriteOnce ==
    [][\A u \in Callers :
          ReadRequest(u) =>
             \A i \in Rows :
                /\ TargetedBy(u, i) => notifications'[i].isRead
                /\ notifications[i].isRead =>
                      notifications'[i].readAt = notifications[i].readAt]_vars

\* C24: a list request with unreadOnly=true answers at most limit rows, all of
\* them the caller's and unread when the query ran, the newest first, and the
\* unreadCount it answers with is the caller's total of unread rows whatever
\* limit and offset are.
ListedStep == listCall'.phase = "listed" /\ listCall' # listCall

AnsweredStep == listCall'.phase = "answered" /\ listCall' # listCall

UnreadOf(u) == {i \in RowsOf(u, RoleOf(u)) : ~notifications[i].isRead}

C24_ListUnread ==
    [][/\ (ListedStep /\ listCall'.unreadOnly = "true") =>
             LET r == listCall'.rows
             IN  /\ Len(r) <= listCall'.limit
                 /\ \A k \in 1..Len(r) : r[k] \in UnreadOf(listCall'.userId)
                 /\ \A k \in 1..(Len(r) - 1) : r[k] > r[k + 1]
       /\ AnsweredStep =>
             listCall'.unreadCount = Cardinality(UnreadOf(listCall'.userId))]_vars

C24_Witness ==
    /\ listCall.phase = "answered"
    /\ listCall.unreadOnly = "true"
    /\ listCall.limit = 1
    /\ listCall.offset = 0
    /\ listCall.rows = <<2>>
    /\ listCall.unreadCount = 2

\* C25: create is rejected when recipientType is not manager or facilitator,
\* when type is not reminder, alert, submission or deadline, or when recipientId
\* is missing, and in each of these cases no row is added or changed.  The
\* rejection is a validation error for the missing recipientId and the error of
\* the rejected INSERT for a value outside an enum.
IsMalformed(spec) ==
    \/ spec.recipientType \notin {"manager", "facilitator"}
    \/ spec.type \notin {"reminder", "alert", "submission", "deadline"}
    \/ spec.recipientId = Undefined

C26_MarkAllReadFrame ==
    [][\A u \in Callers :
          (lastOp'.op = "markAllRead" /\ MarkAllRead(u)) =>
             /\ lastOp'.result = Cardinality(UnreadOf(u))
             /\ \A i \in Rows :
                   IF i \in RowsOf(u, RoleOf(u))
                   THEN /\ notifications'[i].isRead
                        /\ ImmutablePart(notifications'[i]) = ImmutablePart(notifications[i])
                   ELSE notifications'[i] = notifications[i]
             /\ Len(notifications') = Len(notifications)]_vars

C26_Witness ==
    /\ lastOp.op = "markAllRead"
    /\ lastOp.result = 1
    /\ \E i \in Rows :
          /\ notifications[i].recipientId # lastOp.args[1]
          /\ notifications[i].recipientType = RoleOf(lastOp.args[1])
          /\ ~notifications[i].isRead

\* C27: past the grace threshold, after any number of sweeps a non-compliant
\* allocation whose facilitator has a manager has exactly one unread alert, and
\* that alert is addressed to the facilitator's manager.
UnreadAlerts(a) ==
    {i \in Rows : IsAlertFor(notifications[i], a) /\ ~notifications[i].isRead}

C27_OneOutstandingAlert ==
    (lastOp.op = "sweep" /\ currentWeek(now) > GraceWeeks) =>
        \A a \in ActiveAllocations :
            (NonCompliant(a) /\ getManager(a) # None) =>
                /\ Cardinality(UnreadAlerts(a)) = 1
                /\ \A i \in UnreadAlerts(a) :
                      Some(notifications[i].recipientId) = getManager(a)

\* C28: the week number the sweep computes is 1-indexed and lies in 1..52 at
\* every instant of the year: every intent it queues carries such a week.
C28_WeekInRange ==
    \A k \in 1..Len(queue) :
        JSONparse(queue[k]).weekNumber \in MinWeekNumber..MaxWeekNumber

\* C29: every notification comes from one of two producers: a sweep, which
\* adds notifications of type reminder or alert, or the activity-tracker route
\* answering a facilitator's submission, which adds one of type submission.
C29_TwoProducers ==
    [][\A i \in NewRows :
          \/ SweepStep /\ notifications'[i].type \in {"reminder", "alert"}
          \/ /\ lastOp'.op = "submitLog"
             /\ notifications'[i].type = "submission"]_vars

\* C30: a list response to unreadOnly=true with offset 0 and a limit that no
\* number of the caller's unread notifications exceeds holds as many rows as
\* its unreadCount says, whatever other requests and sweeps ran meanwhile.
C30_ListMatchesUnreadCount ==
    [][(/\ AnsweredStep
        /\ listCall'.unreadOnly = "true"
        /\ listCall'.offset = 0
        /\ listCall'.limit >= Len(notifications))
          => Len(listCall'.rows) = listCall'.unreadCount]_vars

\* C31: module codes are unique: no two stored modules share a code, and a
\* create with a code that a stored module already has is rejected and leaves
\* the stored modules as they were.
CodeUsed(code) == \E i \in 1..Len(modules) : modules[i].code = code

C31_ModuleCodesUnique ==
    [][/\ \A i, j \in 1..Len(modules') :
             modules'[i].code = modules'[j].code => i = j
       /\ \A code \in ModuleCodes :
             (lastOp'.op = "createModule" /\ CreateModule(code) /\ CodeUsed(code))
                => /\ lastOp'.result \in {409, 500}
                   /\ modules' = modules]_vars

C31_Witness ==
    /\ lastOp.op = "createModule"
    /\ lastOp.result = 500
    /\ Len(modules) = 2
    /\ \E i \in 1..Len(modules) : ~modules[i].isActive /\ modules[i].code = lastOp.args[1]

\* C32: escalation applies only to a non-compliant allocation: a sweep adds no
\* alert for an allocation that has an active log for the current week.
C32_NoAlertWhenCompliant ==
    [][SweepStep =>
          \A a \in ActiveAllocations :
              ~NonCompliant(a) =>
                  ~\E i \in NewRows : IsAlertFor(notifications'[i], a)]_vars

\* C33: when the popped intent names a facilitator or an allocation that is
\* gone, or has a type the dispatcher does not know, the tick sends no mail,
\* drops the intent, writes nothing and leaves the rest of the list for the
\* next ticks.
Dangling(intent) ==
    \/ intent.facilitatorId \in removed
    \/ intent.allocationId \in removed
    \/ intent.type \notin {"REMINDER_FACILITATOR", "ALERT_MANAGER",
                            "ACTIVITY_LOG_CREATED", "ACTIVITY_LOG_UPDATED"}

C33_DanglingIntentDropped ==
    [][(drainTick /\ Dangling(JSONparse(rpopValue(queue)))) =>
          /\ lastOp'.result = NoAttempt
          /\ queue' = rpopRest(queue)
          /\ notifications' = notifications]_vars

C33_Witness ==
    /\ lastOp.op = "drain"
    /\ lastOp.result = NoAttempt
    /\ lastOp.args[1] = "REMINDER_FACILITATOR"
    /\ lastOp.args[2] \in removed
    /\ queue # << >>

\* C34: in every state of the database worker, isRunning = FALSE implies that
\* no interval timer is armed.
C34_StoppedMeansNoTimer ==
    (design = "db" /\ ~isRunning) => timers = {}

\* C35: with a drain timer that keeps firing, every intent on the list is
\* popped in the end, however many sweeps push further intents meanwhile: the
\* entry that has d entries between it and the tail when a sweep has ended is
\* popped by a later tick.
QueuedWeeks == 1..(GraceWeeks + MaxTicks + 1)

QueueValues ==
    {<<ty, "f1", "a1", w, 1 + (w - 1) * WeekMs>> :
        ty \in {"REMINDER_FACILITATOR", "ALERT_MANAGER"}, w \in QueuedWeeks}

WaitsAt(v, d) == Len(queue) > d /\ queue[Len(queue) - d] = v

C35_EveryIntentPopped ==
    \A v \in QueueValues, d \in 0..(MaxQueue - 1) :
        (lastOp.op = "overdueCheck" /\ WaitsAt(v, d))
            ~> (lastOp.op = "drain" /\ lastOp.args = IdentityOf(JSONparse(v)))

C35_Witness ==
    /\ lastOp.op = "drain"
    /\ lastOp.args[1] = "ALERT_MANAGER"
    /\ Len(queue) = MaxQueue - 1
    /\ ticks > 0

\* C36: a list request with unreadOnly=false answers the caller's read and
\* unread notifications alike: every row of the caller, as far as limit and
\* offset reach; only unreadOnly=true restricts the list to unread rows.
C36_ExplicitFalseListsAll ==
    [][(/\ ListedStep
        /\ listCall'.unreadOnly = "false"
        /\ listCall'.offset = 0
        /\ listCall'.limit >= Len(notifications))
          => \A i \in RowsOf(listCall'.userId, RoleOf(listCall'.userId)) :
                \E k \in 1..Len(listCall'.rows) : listCall'.rows[k] = i]_vars

\* C37: at most one active log exists per allocation and week, also when two
\* creates for the same pair run together: the one whose check missed the
\* other's log is rejected and creates no record.
ActiveLogsOf(L, a, w) ==
    {l \in L : l.allocationId = a /\ l.weekNumber = w /\ l.isActive}

C37_OneActiveLogPerWeek ==
    [][/\ \A a \in AllocationIds, w \in MinWeekNumber..MaxWeekNumber :
             Cardinality(ActiveLogsOf(logs', a, w)) <= 1
       /\ SubmitLogStaleAny =>
             /\ lastOp'.result \in {403, 404, 500}
             /\ logs' = logs
             /\ notifications' = notifications]_vars

C37_Witness ==
    /\ lastOp.op = "submitLog"
    /\ lastOp.result = 500
    /\ logs # {}
    /\ \A l \in logs : l.isActive

\* C38: once a manager has soft-deleted the log of an allocation and week, the
\* allocation has no active log for that week and its facilitator can file a
\* new one: the create for a pair without active log succeeds and leaves an
\* active log.
C38_RefileAfterSoftDelete ==
    [][\A a \in ActiveAllocations, w \in LogWeeks(now) :
          (/\ lastOp'.op = "submitLog"
           /\ SubmitLogUpTo(SingleNotifs, allocations[a].facilitatorId, a, w)
           /\ ActiveLogsOf(logs, a, w) = {})
             => /\ lastOp'.result = 201
                /\ ActiveLogsOf(logs', a, w) # {}]_vars

\* C39: filing or updating a log succeeds whether or not the notification for
\* the manager can be created: for a facilitator without manager the record is
\* persisted, the request answers with success and no notification is written.
C39_LogIndependentOfNotification ==
    [][\A a \in ActiveAllocations, w \in LogWeeks(now) :
          /\ (/\ lastOp'.op = "submitLog"
               /\ SubmitLogUpTo(SingleNotifs, allocations[a].facilitatorId, a, w)
               /\ getManager(a) = None
               /\ ~violatesUniqueIndex(a, w))
                 => /\ lastOp'.result = 201
                    /\ ActiveLogsOf(logs', a, w) # {}
                    /\ notifications' = notifications
          /\ (/\ lastOp'.op = "updateLog"
               /\ UpdateLogUpTo(SingleNotifs, allocations[a].facilitatorId, a, w)
               /\ getManager(a) = None
               /\ ActiveLogsOf(logs, a, w) # {})
                 => /\ lastOp'.result = 200
                    /\ logs' = logs
                    /\ notifications' = notifications]_vars

C39_Witness ==
    /\ lastOp.op = "updateLog"
    /\ lastOp.result = 200
    /\ managerOf["f1"] = None
    /\ logs # {}
    /\ \A i \in Rows : notifications[i].type # "submission"

====
